---- MODULE Spec2Model ----
(***************************************************************************)
(* Two-factor enrolment of Epic Notes: the verification records kept       *)
(* through prisma.verification, the enable action of                       *)
(* settings/profile/two-factor (index route), the cancel / verify action   *)
(* of settings/profile/two-factor/verify and the loaders that report       *)
(* whether 2FA is enabled.  Requests are served concurrently: every        *)
(* handler is cut at its awaited database calls.                           *)
(* Next to it: the change-email page of settings/profile/change-email,    *)
(* the actions of settings/profile and settings/profile/connections, the   *)
(* delete action of a note and the login action.                           *)
(***************************************************************************)
EXTENDS Integers, Sequences, FiniteSets, Bags, TLC

(* ---------------------------- bounds ----------------------------------- *)
MaxSecrets == 2
MaxNow == 60
MaxMinutes == 11
MaxLogins == 2

Slots == {"r1", "r2"}
Users == {"u1", "u2"}
TickSteps == {30}

(* ---------------------- program constants ------------------------------ *)
twoFAVerificationType == "2fa"
twoFAVerifyVerificationType == "2fa-verify"

CodeLength == 6
DefaultPeriod == 30
DefaultDigits == 6
SkewWindows == 1

NoRecord == [id |-> 0, type |-> "none", target |-> "none", secret |-> 0,
             algorithm |-> "none", digits |-> 0, period |-> 0,
             charSet |-> "none", expiresAt |-> -1]
NoExpiry == -1
NoCode == [len |-> 0, val |-> 0]
NoConfig == [secret |-> 0, algorithm |-> "none", digits |-> 0, period |-> 0,
             charSet |-> "none"]
NoPayload == [intent |-> "none", code |-> NoCode]
NoUri == [secret |-> 0, algorithm |-> "none", digits |-> 0, period |-> 0,
          accountName |-> "none", issuer |-> "none"]
NoUser == [id |-> "none", name |-> "none", username |-> "none",
           email |-> "none", password |-> FALSE]
NoResp == [from |-> "none", user |-> "none", kind |-> "none", status |-> 0, to |-> "none",
           toast |-> "none", errors |-> {}, payload |-> NoPayload,
           is2FAEnabled |-> FALSE, otpUri |-> NoUri, setCookie |-> "none",
           password |-> "none", email |-> "none"]

VARIABLES
    store,       \* the rows of prisma.verification
    nextSecret,  \* the secret the next generateTOTP() draws
    now,         \* new Date(), in seconds
    inflight,    \* the requests whose handler awaits its database write
    resp,        \* the response returned last
    latest,      \* per user: the secret of their last stored enable request
    consumed,    \* per user: a verify consumed their pending record and no
                 \* enable request has been stored since
    users,       \* the rows of prisma.user (with whether a password row exists)
    sessions,    \* the rows of prisma.session
    connections, \* the rows of prisma.connection
    notes,       \* the rows of prisma.note
    grants,      \* per user: the permissions their roles carry
    outbox       \* the calls of sendEmail, in order
account == <<users, sessions, connections, notes, grants>>
vars == <<store, nextSecret, now, inflight, resp, latest, consumed, account,
          outbox>>

(* ------------------------- one-time codes ------------------------------ *)
\* a string of decimal digits, kept as its length and its value: the
\* string of n left-padded with zeros to d digits
DigitString(n, d) == [len |-> d, val |-> n % (10 ^ d)]

\* HMAC(secret, counter) with dynamic truncation; a collision-free stand-in
Hotp(secret, counter) == secret * 7919 + counter * 104729

\* RFC 6238: counter = time / period, code = truncated HMAC mod 10^digits
TOTPCode(secret, digits, counter) ==
    DigitString(Hotp(secret, counter), digits)

TimeCounter(t, period) == t \div period

\* generateTOTP(): a fresh secret with the default parameters and the code
\* of the current window
GenerateTOTP(fresh, t) ==
    [secret |-> fresh, algorithm |-> "SHA1", digits |-> DefaultDigits,
     period |-> DefaultPeriod, charSet |-> "0123456789",
     otp |-> TOTPCode(fresh, DefaultDigits, TimeCounter(t, DefaultPeriod))]

\* verifyTOTP(): the code of the current window or of an adjacent one
VerifyTOTP(otp, rec, t) ==
    \E w \in (0 - SkewWindows)..SkewWindows :
        /\ TimeCounter(t, rec.period) + w >= 0
        /\ otp = TOTPCode(rec.secret, rec.digits,
                          TimeCounter(t, rec.period) + w)

(* ------------------------ verification store --------------------------- *)
Matches(r, type, target) == r.type = type /\ r.target = target

\* prisma.verification.findUnique({ where: { target_type } })
FindUnique(s, type, target) ==
    IF \E r \in s : Matches(r, type, target)
    THEN CHOOSE r \in s : Matches(r, type, target)
    ELSE NoRecord

\* the cuid() of a created row: fresh, here the creating request's own draw
NewId(config) == config.secret

NewRow(type, target, config, newId) ==
    [id |-> newId, type |-> type, target |-> target,
     secret |-> config.secret, algorithm |-> config.algorithm,
     digits |-> config.digits, period |-> config.period,
     charSet |-> config.charSet, expiresAt |-> NoExpiry]

\* faulty upsert: a plain create, whatever the table holds
UpsertAlwaysCreates(s, type, target, config, newId) ==
    s \cup { NewRow(type, target, config, newId) }

\* faulty upsert: an existing row is left as it is
UpsertKeepsExisting(s, type, target, config, newId) ==
    IF \E r \in s : Matches(r, type, target) THEN s
    ELSE s \cup { NewRow(type, target, config, newId) }

\* prisma.verification.upsert({ where: { target_type }, create, update })
Upsert(s, type, target, config, newId) ==
    IF \E r \in s : Matches(r, type, target)
    THEN { IF Matches(r, type, target)
           THEN [r EXCEPT !.secret = config.secret,
                          !.algorithm = config.algorithm,
                          !.digits = config.digits,
                          !.period = config.period,
                          !.charSet = config.charSet]
           ELSE r : r \in s }
    ELSE s \cup { NewRow(type, target, config, newId) }

\* faulty update: no unique index on (target, type)
UpdateTypeErrorNoUniqueIndex(s, type, target, newType) ==
    IF ~ \E r \in s : Matches(r, type, target) THEN "P2025" ELSE "none"

\* faulty update: a missing row is no error (updateMany)
UpdateTypeErrorIgnoresMissing(s, type, target, newType) ==
    IF (\E r \in s : Matches(r, type, target))
       /\ (\E q \in s : Matches(q, newType, target))
    THEN "P2002" ELSE "none"

\* prisma.verification.update({ where: { target_type }, data: { type } }):
\* P2025 when the row is gone, P2002 when (newType, target) is taken
UpdateTypeError(s, type, target, newType) ==
    IF ~ \E r \in s : Matches(r, type, target) THEN "P2025"
    ELSE IF \E r \in s : Matches(r, newType, target) THEN "P2002"
    ELSE "none"

\* faulty update: the row is copied under the new type, the old one stays
UpdateTypeKeepsPending(s, type, target, newType) ==
    IF UpdateTypeError(s, type, target, newType) # "none" THEN s
    ELSE s \cup { [r EXCEPT !.type = newType] :
                    r \in { q \in s : Matches(q, type, target) } }

\* faulty update: the row is replaced by a blank row of the new type
UpdateTypeRecreates(s, type, target, newType) ==
    IF UpdateTypeError(s, type, target, newType) # "none" THEN s
    ELSE { IF Matches(r, type, target)
           THEN [NoRecord EXCEPT !.id = r.id, !.type = newType,
                                 !.target = target]
           ELSE r : r \in s }

UpdateType(s, type, target, newType) ==
    IF UpdateTypeError(s, type, target, newType) # "none" THEN s
    ELSE { IF Matches(r, type, target) THEN [r EXCEPT !.type = newType]
           ELSE r : r \in s }

\* faulty deleteMany: the where clause lacks the type
DeleteManyAnyType(s, type, target) == { r \in s : r.target # target }

\* faulty deleteMany: the where clause lacks the target
DeleteManyAnyTarget(s, type, target) == { r \in s : r.type # type }

\* prisma.verification.deleteMany({ where: { type, target } })
DeleteMany(s, type, target) == { r \in s : ~ Matches(r, type, target) }

\* isCodeValid({ code, type, target }): unexpired record and matching TOTP
IsCodeValid(s, code, type, target, t) ==
    LET rec == FindUnique(s, type, target) IN
    /\ rec # NoRecord
    /\ (rec.expiresAt = NoExpiry \/ rec.expiresAt > t)
    /\ VerifyTOTP(code, rec, t)

(* ----------------------------- responses ------------------------------- *)
\* redirect(url)
Redirect(from, u, url) ==
    [NoResp EXCEPT !.from = from, !.user = u, !.kind = "redirect",
                   !.status = 302, !.to = url]
\* redirectWithToast(url, { title })
RedirectWithToast(from, u, url, title) ==
    [NoResp EXCEPT !.from = from, !.user = u, !.kind = "redirect",
                   !.status = 302, !.to = url, !.toast = title]
\* json({ result: submission.reply() }, { status }): the reply echoes the
\* submitted fields next to the issues
Reply(from, u, status, errors, intent, code) ==
    [NoResp EXCEPT !.from = from, !.user = u, !.kind = "json",
                   !.status = status, !.errors = errors,
                   !.payload = [intent |-> intent, code |-> code]]
\* an error the handler does not catch
Thrown(from, u, error) ==
    [NoResp EXCEPT !.from = from, !.user = u, !.kind = "throw",
                   !.status = 500, !.errors = {error}]
\* json({ is2FAEnabled }) / json({ ..., isTwoFactorEnabled })
LoaderData(from, u, enabled) ==
    [NoResp EXCEPT !.from = from, !.user = u, !.kind = "json",
                   !.status = 200, !.is2FAEnabled = enabled]

(* -------------------------- initial state ------------------------------ *)
\* the accounts the application is seeded with: one user with a password,
\* one who signs in through a provider only
SeedUsers ==
    { [id |-> "u1", name |-> "Kody", username |-> "kody",
       email |-> "kody@example.com", password |-> TRUE],
      [id |-> "u2", name |-> "Hannah", username |-> "hannah",
       email |-> "hannah@example.com", password |-> FALSE] }
SeedSessions ==
    { [id |-> "s1", userId |-> "u1"], [id |-> "s2", userId |-> "u1"],
      [id |-> "s3", userId |-> "u2"] }
SeedConnections ==
    { [id |-> "c1", userId |-> "u1"], [id |-> "c2", userId |-> "u2"],
      [id |-> "c3", userId |-> "u2"] }
SeedNotes ==
    { [id |-> "n1", ownerId |-> "u1"], [id |-> "n2", ownerId |-> "u2"] }
\* the first user has the admin and the user role, the second the user role
SeedGrants ==
    [u \in {"u1", "u2"} |->
        IF u = "u1" THEN {"delete:note:own", "delete:note:any"}
        ELSE {"delete:note:own"}]

Init ==
    /\ store = {}
    /\ nextSecret = 1
    /\ now = 0
    /\ inflight = EmptyBag
    /\ resp = NoResp
    /\ latest = [u \in Users |-> 0]
    /\ consumed = [u \in Users |-> FALSE]
    /\ users = SeedUsers
    /\ sessions = SeedSessions
    /\ connections = SeedConnections
    /\ notes = SeedNotes
    /\ grants = SeedGrants
    /\ outbox = << >>

\* the host writes a returned response out before it runs another handler
\* step
Ready == resp = NoResp

\* a request handler suspended at an await: one more may start while a
\* slot of the host is free
SlotFree == BagCardinality(inflight) < Cardinality(Slots)
Awaiting(r) == BagIn(r, inflight)
Suspend(r) == inflight (+) SetToBag({r})
Resume(r) == inflight (-) SetToBag({r})

EnableRequest(u, config) ==
    [pc |-> "upsert", user |-> u, code |-> NoCode, config |-> config]
VerifyRequest(u, code) ==
    [pc |-> "update", user |-> u, code |-> code, config |-> NoConfig]

(* ------------------- settings/profile/two-factor ----------------------- *)
\* faulty loader: any verification of the user counts
Is2FAEnabledAnyType(s, u) == \E r \in s : r.target = u

\* loader: is2FAEnabled = Boolean(verification of type "2fa")
Is2FAEnabled(s, u) == FindUnique(s, twoFAVerificationType, u) # NoRecord

TwoFactorLoader(u) ==
    /\ Ready
    /\ resp' = LoaderData("two-factor.loader", u, Is2FAEnabled(store, u))
    /\ UNCHANGED <<store, nextSecret, now, inflight, latest, consumed>>
    /\ UNCHANGED <<account, outbox>>

\* action, up to the awaited upsert: generateTOTP(), otp dropped
TwoFactorActionGenerate(u) ==
    /\ Ready
    /\ SlotFree
    /\ nextSecret <= MaxSecrets
    /\ LET totp == GenerateTOTP(nextSecret, now) IN
       inflight' = Suspend(EnableRequest(u,
                       [secret |-> totp.secret, algorithm |-> totp.algorithm,
                        digits |-> totp.digits, period |-> totp.period,
                        charSet |-> totp.charSet]))
    /\ nextSecret' = nextSecret + 1
    /\ UNCHANGED <<store, now, resp, latest, consumed>>
    /\ UNCHANGED <<account, outbox>>

\* action: the upsert of the "2fa-verify" record, then the redirect
TwoFactorActionUpsert(r) ==
    /\ Ready
    /\ Awaiting(r)
    /\ r.pc = "upsert"
    /\ store' = Upsert(store, twoFAVerifyVerificationType, r.user,
                       r.config, NewId(r.config))
    /\ latest' = [latest EXCEPT ![r.user] = r.config.secret]
    /\ consumed' = [consumed EXCEPT ![r.user] = FALSE]
    /\ inflight' = Resume(r)
    /\ resp' = Redirect("two-factor.action", r.user,
                        "/settings/profile/two-factor/verify")
    /\ UNCHANGED <<nextSecret, now>>
    /\ UNCHANGED <<account, outbox>>

(* ---------------- settings/profile/two-factor/verify ------------------- *)
Intents == {"cancel", "verify"}

\* faulty parse: the code check is skipped once the length check failed
SubmissionErrorsLengthOnly(s, u, intent, code, t) ==
    IF intent = "verify" /\ code # NoCode /\ code.len # CodeLength
    THEN {"too_small"}
    ELSE IF intent = "verify" /\ code # NoCode
            /\ ~ IsCodeValid(s, code, twoFAVerifyVerificationType, u, t)
    THEN {"Invalid code"}
    ELSE IF intent = "verify" /\ code = NoCode THEN {"Required"}
    ELSE IF intent = "cancel" THEN {}
    ELSE {"Invalid discriminator value"}

\* faulty parse: the code is checked against the "2fa" record
SubmissionErrorsWrongType(s, u, intent, code, t) ==
    IF intent \notin Intents THEN {"Invalid discriminator value"}
    ELSE IF intent = "cancel" THEN {}
    ELSE IF code = NoCode THEN {"Required"}
    ELSE (IF code.len < CodeLength THEN {"too_small"} ELSE {})
         \cup (IF code.len > CodeLength THEN {"too_big"} ELSE {})
         \cup (IF IsCodeValid(s, code, twoFAVerificationType, u, t)
               THEN {} ELSE {"Invalid code"})

\* faulty parse: ActionSchema alone, without the superRefine
SubmissionErrorsNoRefine(s, u, intent, code, t) ==
    IF intent \notin Intents THEN {"Invalid discriminator value"}
    ELSE IF intent = "cancel" THEN {}
    ELSE IF code = NoCode THEN {"Required"}
    ELSE (IF code.len < CodeLength THEN {"too_small"} ELSE {})
         \cup (IF code.len > CodeLength THEN {"too_big"} ELSE {})

\* the issues parseWithZod collects: the form's empty fields are dropped,
\* then ActionSchema, then (unless a field has the wrong type) the superRefine
SubmissionErrors(s, u, intent, code, t) ==
    IF intent \notin Intents THEN {"Invalid discriminator value"}
    ELSE IF intent = "cancel" THEN {}
    ELSE IF code = NoCode THEN {"Required"}
    ELSE (IF code.len < CodeLength THEN {"too_small"} ELSE {})
         \cup (IF code.len > CodeLength THEN {"too_big"} ELSE {})
         \cup (IF IsCodeValid(s, code, twoFAVerifyVerificationType, u, t)
               THEN {} ELSE {"Invalid code"})

\* faulty status: the issues are not looked at
SubmissionStatusIgnoresErrors(errors, validateOnly) ==
    IF validateOnly THEN "none" ELSE "success"

\* submission.status: "success" only without a form intent and without issues
SubmissionStatus(errors, validateOnly) ==
    IF validateOnly THEN "none"
    ELSE IF errors # {} THEN "error" ELSE "success"

\* action, up to its first write: parse, reply on failure, cancel branch
VerifyAction(u, intent, code, validateOnly) ==
    /\ Ready
    /\ LET errors == SubmissionErrors(store, u, intent, code, now)
           status == SubmissionStatus(errors, validateOnly)
       IN  IF status # "success"
           THEN /\ resp' = Reply("verify.action", u,
                                 IF status = "error" THEN 400 ELSE 200,
                                 errors, intent, code)
                /\ UNCHANGED <<store, inflight>>
           ELSE IF intent = "cancel"
           THEN /\ store' = DeleteMany(store, twoFAVerifyVerificationType, u)
                /\ resp' = Redirect("verify.action", u,
                                    "/settings/profile/two-factor")
                /\ UNCHANGED inflight
           ELSE /\ SlotFree
                /\ inflight' = Suspend(VerifyRequest(u, code))
                /\ UNCHANGED <<store, resp>>
    /\ UNCHANGED <<nextSecret, now, latest, consumed>>
    /\ UNCHANGED <<account, outbox>>

\* action, case "verify": the type update, then redirectWithToast
VerifyActionUpdate(r) ==
    /\ Ready
    /\ Awaiting(r)
    /\ r.pc = "update"
    /\ LET error == UpdateTypeError(store, twoFAVerifyVerificationType,
                                    r.user, twoFAVerificationType)
       IN  /\ store' = UpdateType(store, twoFAVerifyVerificationType, r.user,
                                  twoFAVerificationType)
           /\ resp' = IF error # "none"
                      THEN Thrown("verify.action", r.user, error)
                      ELSE RedirectWithToast("verify.action", r.user,
                                             "/settings/profile/two-factor",
                                             "Enabled")
           /\ consumed' = IF error # "none" THEN consumed
                          ELSE [consumed EXCEPT ![r.user] = TRUE]
    /\ inflight' = Resume(r)
    /\ UNCHANGED <<nextSecret, now, latest>>
    /\ UNCHANGED <<account, outbox>>

(* ------------------------ settings/profile ----------------------------- *)
\* loader: isTwoFactorEnabled = Boolean(twoFactorVerification)
IsTwoFactorEnabled(s, u) == FindUnique(s, twoFAVerificationType, u) # NoRecord

ProfileLoader(u) ==
    /\ Ready
    /\ resp' = LoaderData("profile.loader", u,
                        IsTwoFactorEnabled(store, u))
    /\ UNCHANGED <<store, nextSecret, now, inflight, latest, consumed>>
    /\ UNCHANGED <<account, outbox>>

(* ------------------------------ clock ---------------------------------- *)
Tick(d) ==
    /\ Ready
    /\ now + d <= MaxNow
    /\ now' = now + d
    /\ UNCHANGED <<store, nextSecret, inflight, resp, latest,
                   consumed>>
    /\ UNCHANGED <<account, outbox>>

(* ----------------------------- host ----------------------------------- *)
\* the response leaves the server
Deliver ==
    /\ resp # NoResp
    /\ resp' = NoResp
    /\ UNCHANGED <<store, nextSecret, now, inflight, latest, consumed>>
    /\ UNCHANGED <<account, outbox>>

(* --------------------------- submissions ------------------------------- *)
\* what a client may type: the code an authenticator shows for any secret
\* handed out so far, in any window of the run, nothing, or something else
CodeInputs ==
    { TOTPCode(s, DefaultDigits, c) :
        s \in 1..(nextSecret - 1),
        c \in 0..TimeCounter(MaxNow, DefaultPeriod) }
    \cup { NoCode, DigitString(123, 3), DigitString(0, 6),
           DigitString(1234567, 7) }

\* the forms a client may post: [intent, code, validateOnly]; a form
\* validating as the user types carries what the authenticator shows now
Submissions ==
    { [intent |-> "verify", code |-> c, validateOnly |-> FALSE] :
        c \in CodeInputs }
    \cup { [intent |-> "verify", code |-> c, validateOnly |-> TRUE] :
             c \in { TOTPCode(s, DefaultDigits,
                              TimeCounter(now, DefaultPeriod)) :
                        s \in 1..(nextSecret - 1) }
                    \cup { DigitString(0, 6) } }
    \cup { [intent |-> i, code |-> NoCode, validateOnly |-> v] :
             i \in {"cancel", "other"}, v \in BOOLEAN }

Next ==
    \/ \E u \in Users : TwoFactorLoader(u)
    \/ \E u \in Users : TwoFactorActionGenerate(u)
    \/ \E r \in BagToSet(inflight) : TwoFactorActionUpsert(r)
    \/ \E u \in Users, f \in Submissions :
          VerifyAction(u, f.intent, f.code, f.validateOnly)
    \/ \E r \in BagToSet(inflight) : VerifyActionUpdate(r)
    \/ \E u \in Users : ProfileLoader(u)
    \/ \E d \in TickSteps : Tick(d)
    \/ Deliver

Spec == Init /\ [][Next]_vars

(* ------------- settings/profile/two-factor/verify: loader -------------- *)
\* new URL(getDomainUrl(request)).host
Issuer == "localhost:3000"

\* getTOTPAuthUri: the otpauth://totp/ URI of issuer, account and the
\* record's secret, algorithm, digits and period
GetTOTPAuthUri(rec, accountName, issuer) ==
    [secret |-> rec.secret, algorithm |-> rec.algorithm,
     digits |-> rec.digits, period |-> rec.period,
     accountName |-> accountName, issuer |-> issuer]

\* prisma.user.findUnique({ where: { id } })
FindUser(us, id) ==
    IF \E r \in us : r.id = id
    THEN CHOOSE r \in us : r.id = id
    ELSE NoUser

\* faulty lookup: the record of either type
PendingVerificationAnyType(s, u) ==
    IF FindUnique(s, twoFAVerifyVerificationType, u) # NoRecord
    THEN FindUnique(s, twoFAVerifyVerificationType, u)
    ELSE FindUnique(s, twoFAVerificationType, u)

\* loader: the user's record of type "2fa-verify"
PendingVerification(s, u) == FindUnique(s, twoFAVerifyVerificationType, u)

\* json({ otpUri, qrCode })
OtpUriData(from, u, uri) ==
    [NoResp EXCEPT !.from = from, !.user = u, !.kind = "json",
                   !.status = 200, !.otpUri = uri]

\* loader: redirect without a pending record, else the URI of its secret
VerifyLoader(u) ==
    /\ Ready
    /\ LET verification == PendingVerification(store, u)
           user == FindUser(users, u)
       IN  resp' = IF verification = NoRecord
                   THEN Redirect("verify.loader", u,
                                 "/settings/profile/two-factor")
                   ELSE IF user = NoUser
                   THEN Thrown("verify.loader", u, "P2025")
                   ELSE OtpUriData("verify.loader", u,
                                   GetTOTPAuthUri(verification, user.email,
                                                  Issuer))
    /\ UNCHANGED <<store, nextSecret, now, inflight, latest, consumed>>
    /\ UNCHANGED <<account, outbox>>

\* the forms of the verify page: cancel, or the code an authenticator shows
\* for a secret that has been generated
VerifyPageForms ==
    [intent : {"cancel"}, code : {NoCode}]
    \cup [intent : {"verify"},
          code : { TOTPCode(s, DefaultDigits, TimeCounter(now, DefaultPeriod)) :
                     s \in 1..(nextSecret - 1) }]

VerifyPageNext ==
    \/ \E u \in Users : TwoFactorActionGenerate(u)
    \/ \E r \in BagToSet(inflight) : TwoFactorActionUpsert(r)
    \/ \E u \in Users : VerifyLoader(u)
    \/ \E u \in Users, f \in VerifyPageForms :
          VerifyAction(u, f.intent, f.code, FALSE)
    \/ \E r \in BagToSet(inflight) : VerifyActionUpdate(r)
    \/ Deliver

VerifyPageSpec == Init /\ [][VerifyPageNext]_vars

(* -------------------- settings/profile/change-email -------------------- *)
changeEmailVerificationType == "change-email"
\* period: 10 * 60
ChangeEmailPeriod == 600

NoEmail == "none"
\* the new address a form can carry: a free one, a taken one, a malformed one
EmailInputs == {"new@example.com", "hannah@example.com", "not-an-email"}
\* EmailSchema: the input is an e-mail address
WellFormed(email) == email \in {"new@example.com", "hannah@example.com",
                                "kody@example.com"}

\* generateTOTP({ algorithm: "SHA256", period })
GenerateTOTPWith(fresh, t, period) ==
    [secret |-> fresh, algorithm |-> "SHA256", digits |-> DefaultDigits,
     period |-> period, charSet |-> "0123456789",
     otp |-> TOTPCode(fresh, DefaultDigits, TimeCounter(t, period))]

\* prepareVerification, up to its upsert: the record to store, expiring one
\* period from now, and the code to deliver
PrepareVerification(period, type, target, fresh, t) ==
    LET totp == GenerateTOTPWith(fresh, t, period) IN
    [type |-> type, target |-> target,
     config |-> [secret |-> totp.secret, algorithm |-> totp.algorithm,
                 digits |-> totp.digits, period |-> totp.period,
                 charSet |-> totp.charSet],
     otp |-> totp.otp, expiresAt |-> t + period]

\* prepareVerification's prisma.verification.upsert: as Upsert, with expiresAt
UpsertExpiring(s, type, target, config, expiresAt, newId) ==
    { IF Matches(r, type, target) THEN [r EXCEPT !.expiresAt = expiresAt]
      ELSE r : r \in Upsert(s, type, target, config, newId) }

\* faulty call: a validity of twenty minutes
ChangeEmailVerificationTwentyMinutes(u, fresh, t) ==
    PrepareVerification(2 * ChangeEmailPeriod, changeEmailVerificationType,
                        u, fresh, t)

\* prepareVerification({ period: 10 * 60, target: userId, type })
ChangeEmailVerification(u, fresh, t) ==
    PrepareVerification(ChangeEmailPeriod, changeEmailVerificationType, u,
                        fresh, t)

\* faulty parse: ChangeEmailSchema alone, without the superRefine
ChangeEmailErrorsNoRefine(us, email) ==
    IF email = NoEmail THEN {"Required"}
    ELSE IF ~ WellFormed(email) THEN {"Email is invalid"}
    ELSE {}

\* the issues of ChangeEmailSchema with its superRefine
ChangeEmailErrors(us, email) ==
    IF email = NoEmail THEN {"Required"}
    ELSE IF ~ WellFormed(email) THEN {"Email is invalid"}
    ELSE IF \E r \in us : r.email = email
    THEN {"This email is already in use."}
    ELSE {}

ChangeEmailRequest(u, email, verification) ==
    [pc |-> "prepare", user |-> u, email |-> email,
     verification |-> verification]

\* action, up to the awaited upsert of prepareVerification
ChangeEmailAction(u, email, validateOnly) ==
    /\ Ready
    /\ LET errors == ChangeEmailErrors(users, email)
           status == SubmissionStatus(errors, validateOnly)
       IN  IF status # "success"
           THEN /\ resp' = Reply("change-email.action", u,
                                 IF status = "error" THEN 400 ELSE 200,
                                 errors, "none", NoCode)
                /\ UNCHANGED <<inflight, nextSecret>>
           ELSE /\ SlotFree
                /\ nextSecret <= MaxSecrets
                /\ inflight' = Suspend(ChangeEmailRequest(u, email,
                                  ChangeEmailVerification(u, nextSecret, now)))
                /\ nextSecret' = nextSecret + 1
                /\ UNCHANGED resp
    /\ UNCHANGED <<store, now, latest, consumed, account, outbox>>

\* action: prepareVerification stores the record; sendEmail is awaited next
ChangeEmailPrepare(r) ==
    /\ Ready
    /\ Awaiting(r)
    /\ r.pc = "prepare"
    /\ store' = UpsertExpiring(store, r.verification.type,
                               r.verification.target, r.verification.config,
                               r.verification.expiresAt,
                               NewId(r.verification.config))
    /\ inflight' = Resume(r) (+) SetToBag({[r EXCEPT !.pc = "send"]})
    /\ UNCHANGED <<nextSecret, now, resp, latest, consumed, account, outbox>>

\* the message of the error sendEmail reports
SendErrorMessage == "response.error.message"

\* faulty ending: the outcome of the send is not looked at
ChangeEmailResponseIgnoresStatus(u, email, status) ==
    [Redirect("change-email.action", u, "/verify") EXCEPT !.setCookie = email]

\* action, after sendEmail: the redirect with the verify session that holds
\* the new address, or the 500 reply with the error as form error
ChangeEmailResponse(u, email, status) ==
    IF status = "success"
    THEN [Redirect("change-email.action", u, "/verify")
            EXCEPT !.setCookie = email]
    ELSE Reply("change-email.action", u, 500, {SendErrorMessage}, "none",
               NoCode)

\* action: sendEmail returns, with either status
ChangeEmailSend(r, status) ==
    /\ Ready
    /\ Awaiting(r)
    /\ r.pc = "send"
    /\ outbox' = Append(outbox, [to |-> r.email, otp |-> r.verification.otp,
                                 secret |-> r.verification.config.secret,
                                 status |-> status])
    /\ resp' = ChangeEmailResponse(r.user, r.email, status)
    /\ inflight' = Resume(r)
    /\ UNCHANGED <<store, nextSecret, now, latest, consumed, account>>

\* submit of the emailed code: validate, then delete the record (one-shot)
VerifyChangeEmail(u, code) ==
    /\ Ready
    /\ IF IsCodeValid(store, code, changeEmailVerificationType, u, now)
       THEN /\ store' = DeleteMany(store, changeEmailVerificationType, u)
            /\ resp' = RedirectWithToast("verify.change-email", u,
                                         "/settings/profile", "Email Changed")
       ELSE /\ store' = store
            /\ resp' = Reply("verify.change-email", u, 400, {"Invalid code"},
                             "verify", code)
    /\ UNCHANGED <<nextSecret, now, inflight, latest, consumed, account,
                   outbox>>

\* five or six minutes pass
MinuteSteps == {5, 6}
MinuteTick(m) ==
    /\ Ready
    /\ now + m * 60 <= MaxMinutes * 60
    /\ now' = now + m * 60
    /\ UNCHANGED <<store, nextSecret, inflight, resp, latest, consumed,
                   account, outbox>>

\* the codes a change-email submit can carry: those of a generated secret,
\* or a code of no secret
EmailCodeInputs ==
    { TOTPCode(s, DefaultDigits, c) :
        s \in 1..(nextSecret - 1),
        c \in 0..TimeCounter(MaxMinutes * 60, ChangeEmailPeriod) }
    \cup {DigitString(0, CodeLength)}

\* the user who changes their address
EmailUsers == {"u1"}

EmailNext ==
    \/ \E u \in EmailUsers, email \in EmailInputs, validateOnly \in BOOLEAN :
          ChangeEmailAction(u, email, validateOnly)
    \/ \E r \in BagToSet(inflight) : ChangeEmailPrepare(r)
    \/ \E r \in BagToSet(inflight), status \in {"success", "error"} :
          ChangeEmailSend(r, status)
    \/ \E u \in EmailUsers, code \in EmailCodeInputs :
          VerifyChangeEmail(u, code)
    \/ \E m \in MinuteSteps : MinuteTick(m)
    \/ Deliver

EmailSpec == Init /\ [][EmailNext]_vars

(* ------------- the intents of the settings/profile routes -------------- *)
profileUpdateActionIntent == "update-profile"
signOutOfSessionsActionIntent == "sign-out-of-sessions"
deleteDataActionIntent == "delete-data"
deleteConnectionIntent == "delete-connection"

NoIntent == "none"
NoUsername == "none"
NoConnectionId == "none"
NoSessionId == "none"

\* throw new Response(message, { status }) / invariantResponse(false, message)
ErrorResponse(from, u, status, message) ==
    [NoResp EXCEPT !.from = from, !.user = u, !.kind = "response",
                   !.status = status, !.errors = {message}]
\* json({ status: "success" }, { headers })
StatusSuccess(from, u, title) ==
    [NoResp EXCEPT !.from = from, !.user = u, !.kind = "json",
                   !.status = 200, !.toast = title]

\* requireUserId: the cookie's session exists and belongs to the user
Authenticated(ss, u, sessionId) ==
    \E s \in ss : s.id = sessionId /\ s.userId = u

ProfileUpdateRequest(u, name, username) ==
    [pc |-> "user.update", user |-> u, intent |-> profileUpdateActionIntent,
     name |-> name, username |-> username, connectionId |-> NoConnectionId]
DeleteConnectionRequest(u, connectionId) ==
    [pc |-> "connection.delete", user |-> u,
     intent |-> deleteConnectionIntent, name |-> "none",
     username |-> NoUsername, connectionId |-> connectionId]

\* faulty switch: without the default case, control reaches the last handler
ProfileHandlerFallsThrough(intent) ==
    CASE intent = profileUpdateActionIntent -> "profileUpdateAction"
      [] intent = signOutOfSessionsActionIntent -> "signOutOfSessionsAction"
      [] OTHER -> "deleteDataAction"

\* switch (intent): the handler of the case, none for the default
ProfileHandler(intent) ==
    CASE intent = profileUpdateActionIntent -> "profileUpdateAction"
      [] intent = signOutOfSessionsActionIntent -> "signOutOfSessionsAction"
      [] intent = deleteDataActionIntent -> "deleteDataAction"
      [] OTHER -> "none"

\* the issues of ProfileFormSchema with its superRefine: the username is
\* there and no other user has it
ProfileErrors(us, u, username) ==
    IF username = NoUsername THEN {"Required"}
    ELSE IF \E r \in us : r.username = username /\ r.id # u
    THEN {"A user already exists with this username"}
    ELSE {}

\* profileUpdateAction, up to the awaited update
ProfileUpdateAction(u, name, username, validateOnly) ==
    LET errors == ProfileErrors(users, u, username)
        status == SubmissionStatus(errors, validateOnly)
    IN  IF status # "success"
        THEN /\ resp' = Reply("profileUpdateAction", u,
                              IF status = "error" THEN 400 ELSE 200,
                              errors, profileUpdateActionIntent, NoCode)
             /\ UNCHANGED <<account, inflight>>
        ELSE /\ SlotFree
             /\ inflight' = Suspend(ProfileUpdateRequest(u, name, username))
             /\ UNCHANGED <<account, resp>>

\* faulty update: no unique index on the username
UserUpdateErrorNoUniqueIndex(us, id, username) ==
    IF FindUser(us, id) = NoUser THEN "P2025" ELSE "none"

\* prisma.user.update: P2025 without the row, P2002 on a taken username
UserUpdateError(us, id, username) ==
    IF FindUser(us, id) = NoUser THEN "P2025"
    ELSE IF \E r \in us : r.id # id /\ r.username = username THEN "P2002"
    ELSE "none"
UserUpdate(us, id, name, username) ==
    IF UserUpdateError(us, id, username) # "none" THEN us
    ELSE { IF r.id = id
           THEN [r EXCEPT !.name = name, !.username = username]
           ELSE r : r \in us }

\* profileUpdateAction: the update, then the reply
ProfileUpdateWrite(r) ==
    /\ Ready
    /\ Awaiting(r)
    /\ r.pc = "user.update"
    /\ LET error == UserUpdateError(users, r.user, r.username) IN
       /\ users' = UserUpdate(users, r.user, r.name, r.username)
       /\ resp' = IF error # "none"
                  THEN Thrown("profileUpdateAction", r.user, error)
                  ELSE Reply("profileUpdateAction", r.user, 200, {},
                             profileUpdateActionIntent, NoCode)
    /\ inflight' = Resume(r)
    /\ UNCHANGED <<store, nextSecret, now, latest, consumed, sessions,
                   connections, notes, grants, outbox>>

\* faulty deleteMany: where: { id: { not: sessionId } } alone
DeleteOtherSessionsAnyUser(ss, u, sessionId) ==
    { s \in ss : s.id = sessionId }

\* prisma.session.deleteMany({ where: { userId, id: { not: sessionId } } })
DeleteOtherSessions(ss, u, sessionId) ==
    { s \in ss : ~ (s.userId = u /\ s.id # sessionId) }

\* signOutOfSessionsAction: invariantResponse(sessionId, ...), then the
\* deleteMany
SignOutOfSessionsAction(u, sessionId) ==
    /\ IF sessionId = NoSessionId
       THEN /\ resp' = ErrorResponse("signOutOfSessionsAction", u, 400,
                   "You must be authenticated to sign out of other sessions")
            /\ UNCHANGED sessions
       ELSE /\ sessions' = DeleteOtherSessions(sessions, u, sessionId)
            /\ resp' = StatusSuccess("signOutOfSessionsAction", u, "none")
    /\ UNCHANGED <<users, connections, notes, grants, inflight>>

\* prisma.user.delete({ where: { id } }): the row, and with it the rows
\* that reference it
DeleteOwned(rows, id) == { r \in rows : r.userId # id }

\* deleteDataAction
DeleteDataAction(u) ==
    /\ users' = { r \in users : r.id # u }
    /\ sessions' = DeleteOwned(sessions, u)
    /\ connections' = DeleteOwned(connections, u)
    /\ notes' = { n \in notes : n.ownerId # u }
    /\ UNCHANGED grants
    /\ resp' = RedirectWithToast("deleteDataAction", u, "/", "Data Deleted")
    /\ UNCHANGED inflight

\* settings/profile (index route), action
ProfileAction(u, sessionId, intent, name, username, validateOnly) ==
    /\ Ready
    /\ Authenticated(sessions, u, sessionId)
    /\ LET handler == ProfileHandler(intent) IN
       CASE handler = "profileUpdateAction" ->
              ProfileUpdateAction(u, name, username, validateOnly)
         [] handler = "signOutOfSessionsAction" ->
              SignOutOfSessionsAction(u, sessionId)
         [] handler = "deleteDataAction" -> DeleteDataAction(u)
         [] OTHER ->
              /\ resp' = ErrorResponse("profile.action", u, 400,
                                       "Invalid intent")
              /\ UNCHANGED <<account, inflight>>
    /\ UNCHANGED <<store, nextSecret, now, latest, consumed, outbox>>

(* -------------------- settings/profile/connections --------------------- *)
\* userCanDeleteConnections: a password, or more than one connection
UserCanDeleteConnections(us, cs, u) ==
    LET user == FindUser(us, u) IN
    IF user # NoUser /\ user.password THEN TRUE
    ELSE user # NoUser /\ Cardinality({ c \in cs : c.userId = u }) > 1

\* action, up to the awaited delete
ConnectionsAction(u, sessionId, intent, connectionId) ==
    /\ Ready
    /\ Authenticated(sessions, u, sessionId)
    /\ IF intent # deleteConnectionIntent
       THEN /\ resp' = ErrorResponse("connections.action", u, 400,
                                     "Invalid intent")
            /\ UNCHANGED inflight
       ELSE IF ~ UserCanDeleteConnections(users, connections, u)
       THEN /\ resp' = ErrorResponse("connections.action", u, 400,
                          "You cannot delete your last connection unless you have a password.")
            /\ UNCHANGED inflight
       ELSE IF connectionId = NoConnectionId
       THEN /\ resp' = ErrorResponse("connections.action", u, 400,
                                     "Invalid connectionId")
            /\ UNCHANGED inflight
       ELSE /\ SlotFree
            /\ inflight' = Suspend(DeleteConnectionRequest(u, connectionId))
            /\ UNCHANGED resp
    /\ UNCHANGED <<store, nextSecret, now, latest, consumed, account, outbox>>

\* faulty delete: where: { id } alone
ConnectionDeleteAnyOwner(cs, id, u) == { c \in cs : c.id # id }

\* prisma.connection.delete({ where: { id, userId } })
ConnectionDeleteError(cs, id, u) ==
    IF \E c \in cs : c.id = id /\ c.userId = u THEN "none" ELSE "P2025"
ConnectionDelete(cs, id, u) == { c \in cs : ~ (c.id = id /\ c.userId = u) }

\* action: the delete, then json({ status: "success" }) with the toast
ConnectionsActionDelete(r) ==
    /\ Ready
    /\ Awaiting(r)
    /\ r.pc = "connection.delete"
    /\ LET error == ConnectionDeleteError(connections, r.connectionId, r.user)
       IN  /\ connections' = ConnectionDelete(connections, r.connectionId,
                                              r.user)
           /\ resp' = IF error # "none"
                      THEN Thrown("connections.action", r.user, error)
                      ELSE StatusSuccess("connections.action", r.user,
                                         "Deleted")
    /\ inflight' = Resume(r)
    /\ UNCHANGED <<store, nextSecret, now, latest, consumed, users, sessions,
                   notes, grants, outbox>>

(* ------------------- the three actions side by side -------------------- *)
\* what a form of the profile page can carry; "none" is a missing field
ProfileForms ==
    [intent : {profileUpdateActionIntent}, name : {"Koala"},
     username : {"hannah", "koala"}, validateOnly : {FALSE}]
    \cup [intent : {profileUpdateActionIntent}, name : {"Koala"},
          username : {NoUsername}, validateOnly : BOOLEAN]
    \cup [intent : {signOutOfSessionsActionIntent, deleteDataActionIntent,
                    NoIntent, "cancel"},
          name : {"none"}, username : {NoUsername}, validateOnly : {FALSE}]
ConnectionsForms ==
    [intent : {deleteConnectionIntent, NoIntent, deleteDataActionIntent},
     connectionId : {"c1", "c2", NoConnectionId}]
\* the forms of the verify page, and forms with no intent or another route's
DispatchVerifyForms ==
    [intent : {"cancel", profileUpdateActionIntent},
     code : {NoCode}, validateOnly : {FALSE}]
    \cup [intent : {NoIntent}, code : {NoCode}, validateOnly : BOOLEAN]
    \cup [intent : {"verify"},
          code : { TOTPCode(s, DefaultDigits, TimeCounter(now, DefaultPeriod)) :
                     s \in 1..(nextSecret - 1) } \cup {DigitString(0, 6)},
          validateOnly : {FALSE}]
SessionIds == {"s1", "s2", "s3"}
\* the user whose browser tabs post the forms
DispatchUsers == {"u1"}

DispatchNext ==
    \/ \E u \in DispatchUsers, sid \in SessionIds, f \in ProfileForms :
          ProfileAction(u, sid, f.intent, f.name, f.username, f.validateOnly)
    \/ \E r \in BagToSet(inflight) : ProfileUpdateWrite(r)
    \/ \E u \in DispatchUsers, sid \in SessionIds, f \in ConnectionsForms :
          ConnectionsAction(u, sid, f.intent, f.connectionId)
    \/ \E r \in BagToSet(inflight) : ConnectionsActionDelete(r)
    \/ \E u \in DispatchUsers : TwoFactorActionGenerate(u)
    \/ \E r \in BagToSet(inflight) : TwoFactorActionUpsert(r)
    \/ \E u \in DispatchUsers, f \in DispatchVerifyForms :
          /\ \E sid \in SessionIds : Authenticated(sessions, u, sid)
          /\ VerifyAction(u, f.intent, f.code, f.validateOnly)
    \/ \E r \in BagToSet(inflight) : VerifyActionUpdate(r)
    \/ Deliver

DispatchSpec == Init /\ [][DispatchNext]_vars

(* ------------- settings/profile/connections, two users ----------------- *)
\* the connection a form names: one of the requester, one of somebody else
ConnectionIds == {"c1", "c2", "c3"}
ConnectionsPageForms ==
    [intent : {deleteConnectionIntent},
     connectionId : ConnectionIds \cup {NoConnectionId}]

ConnectionsNext ==
    \/ \E u \in Users, sid \in SessionIds, f \in ConnectionsPageForms :
          ConnectionsAction(u, sid, f.intent, f.connectionId)
    \/ \E r \in BagToSet(inflight) : ConnectionsActionDelete(r)
    \/ Deliver

ConnectionsSpec == Init /\ [][ConnectionsNext]_vars

(* ------------------ users/$username/notes/$noteId ---------------------- *)
deleteNoteIntent == "delete-note"
NoNoteId == "none"
NoNote == [id |-> "none", ownerId |-> "none"]

\* 403, thrown by requireUserWithPermission
Forbidden(from, u, permission) ==
    [NoResp EXCEPT !.from = from, !.user = u, !.kind = "response",
                   !.status = 403, !.errors = {"Unauthorized"},
                   !.toast = permission]
\* invariantResponse(note, "Not found", { status: 404 })
NotFoundResponse(from, u) ==
    [NoResp EXCEPT !.from = from, !.user = u, !.kind = "response",
                   !.status = 404, !.errors = {"Not found"}]

\* the issues of DeleteFormSchema: intent is the literal, noteId a string
DeleteFormErrors(intent, noteId) ==
    (IF intent # deleteNoteIntent THEN {"Invalid literal value"} ELSE {})
    \cup (IF noteId = NoNoteId THEN {"Required"} ELSE {})

\* prisma.note.findFirst({ where: { id } })
FindNote(ns, id) ==
    IF \E n \in ns : n.id = id THEN CHOOSE n \in ns : n.id = id ELSE NoNote

\* faulty choice: the permission on one's own notes is asked of everybody
RequiredPermissionOwnOnly(note, u) == "delete:note:own"

\* isOwner ? "delete:note:own" : "delete:note:any"
RequiredPermission(note, u) ==
    IF note.ownerId = u THEN "delete:note:own" ELSE "delete:note:any"

\* requireUserWithPermission: the user's roles carry the permission
UserHasPermission(gs, u, permission) == permission \in gs[u]

\* `/users/${note.owner.username}/notes`
NotesUrl(us, ownerId) ==
    LET owner == FindUser(us, ownerId) IN
    CASE owner.username = "kody" -> "/users/kody/notes"
      [] owner.username = "hannah" -> "/users/hannah/notes"
      [] OTHER -> "/users/:username/notes"

NoteRequest(u, note, url) ==
    [pc |-> "note.delete", user |-> u, noteId |-> note.id, url |-> url]

\* action, up to the awaited delete
NoteAction(u, sessionId, intent, noteId, validateOnly) ==
    /\ Ready
    /\ Authenticated(sessions, u, sessionId)
    /\ LET errors == DeleteFormErrors(intent, noteId)
           status == SubmissionStatus(errors, validateOnly)
           note == FindNote(notes, noteId)
       IN  IF status # "success"
           THEN /\ resp' = Reply("note.action", u,
                                 IF status = "error" THEN 400 ELSE 200,
                                 errors, intent, NoCode)
                /\ UNCHANGED inflight
           ELSE IF note = NoNote
           THEN /\ resp' = NotFoundResponse("note.action", u)
                /\ UNCHANGED inflight
           ELSE IF ~ UserHasPermission(grants, u, RequiredPermission(note, u))
           THEN /\ resp' = Forbidden("note.action", u,
                                     RequiredPermission(note, u))
                /\ UNCHANGED inflight
           ELSE /\ SlotFree
                /\ inflight' = Suspend(NoteRequest(u, note,
                                          NotesUrl(users, note.ownerId)))
                /\ UNCHANGED resp
    /\ UNCHANGED <<store, nextSecret, now, latest, consumed, account, outbox>>

\* prisma.note.delete({ where: { id } }): P2025 without the row
NoteDeleteError(ns, id) ==
    IF \E n \in ns : n.id = id THEN "none" ELSE "P2025"
NoteDelete(ns, id) == { n \in ns : n.id # id }

\* action: the delete, then redirectWithToast
NoteActionDelete(r) ==
    /\ Ready
    /\ Awaiting(r)
    /\ r.pc = "note.delete"
    /\ notes' = NoteDelete(notes, r.noteId)
    /\ resp' = IF NoteDeleteError(notes, r.noteId) # "none"
               THEN Thrown("note.action", r.user,
                           NoteDeleteError(notes, r.noteId))
               ELSE RedirectWithToast("note.action", r.user, r.url, "Success")
    /\ inflight' = Resume(r)
    /\ UNCHANGED <<store, nextSecret, now, latest, consumed, users, sessions,
                   connections, grants, outbox>>

\* the roles an administrator may have given the users before the run
GrantSets == SUBSET {"delete:note:own", "delete:note:any"}
NotesInit ==
    /\ store = {}
    /\ nextSecret = 1
    /\ now = 0
    /\ inflight = EmptyBag
    /\ resp = NoResp
    /\ latest = [u \in Users |-> 0]
    /\ consumed = [u \in Users |-> FALSE]
    /\ users = SeedUsers
    /\ sessions = SeedSessions
    /\ connections = SeedConnections
    /\ notes = SeedNotes
    /\ grants \in [Users -> GrantSets]
    /\ outbox = << >>

\* a note of each user, a note that does not exist, no note id
NoteForms ==
    [intent : {deleteNoteIntent}, noteId : {"n1", "n2", "n9", NoNoteId},
     validateOnly : BOOLEAN]
    \cup [intent : {NoIntent}, noteId : {"n1"}, validateOnly : {FALSE}]

NotesNext ==
    \/ \E u \in Users, sid \in SessionIds, f \in NoteForms :
          NoteAction(u, sid, f.intent, f.noteId, f.validateOnly)
    \/ \E r \in BagToSet(inflight) : NoteActionDelete(r)
    \/ Deliver

NotesSpec == NotesInit /\ [][NotesNext]_vars

(* -------------------- settings/profile, two users ---------------------- *)
\* the handler called for a request whose cookie carries no session id
SignOutOfSessionsUnauthenticated(u) ==
    /\ Ready
    /\ SignOutOfSessionsAction(u, NoSessionId)
    /\ UNCHANGED <<store, nextSecret, now, latest, consumed, outbox>>

\* the forms of the profile page: a username of one's own, of the other
\* user, or a free one; the sign-out button
ProfilePageForms ==
    [intent : {profileUpdateActionIntent}, name : {"Koala"},
     username : {"kody", "hannah", "koala"}, validateOnly : {FALSE}]
    \cup [intent : {signOutOfSessionsActionIntent}, name : {"none"},
          username : {NoUsername}, validateOnly : {FALSE}]

ProfileNext ==
    \/ \E u \in Users, sid \in SessionIds, f \in ProfilePageForms :
          ProfileAction(u, sid, f.intent, f.name, f.username, f.validateOnly)
    \/ \E r \in BagToSet(inflight) : ProfileUpdateWrite(r)
    \/ \E u \in Users : SignOutOfSessionsUnauthenticated(u)
    \/ Deliver

ProfileSpec == Init /\ [][ProfileNext]_vars

(* ------------------------------- login --------------------------------- *)
NoPassword == "none"
\* the password hashes of the seeded users: the second user has none
SeedPasswords == [u \in {"u1"} |-> "kodylovesyou"]

\* the issues of LoginFormSchema: username and password are there
LoginFormErrors(username, password) ==
    IF username = NoUsername \/ password = NoPassword
    THEN {"Required"} ELSE {}

\* verifyUserPassword: the user of that name, if the password is theirs
VerifyUserPassword(us, username, password) ==
    LET found == { r \in us : /\ r.username = username
                              /\ r.password
                              /\ r.id \in DOMAIN SeedPasswords
                              /\ SeedPasswords[r.id] = password }
    IN  IF found = {} THEN NoUser ELSE CHOOSE r \in found : TRUE

\* the ids prisma.session.create hands out, in order
SessionIdsToCome == <<"s4", "s5", "s6", "s7", "s8">>
Created(ss) == ss \ SeedSessions
NewSessionId(ss) == SessionIdsToCome[Cardinality(Created(ss)) + 1]

\* faulty reply: submission.reply() without hideFields
LoginReplyShowsPassword(status, errors, password) ==
    [NoResp EXCEPT !.from = "login.action", !.kind = "json",
                   !.status = status, !.errors = errors,
                   !.password = password]

\* json({ result: submission.reply({ hideFields: ["password"] }) })
LoginReply(status, errors, password) ==
    [NoResp EXCEPT !.from = "login.action", !.kind = "json",
                   !.status = status, !.errors = errors,
                   !.password = "none"]

\* handleNewSession: the session id goes into the cookie, of the verify
\* session when the user has 2FA enabled, of the auth session otherwise
HandleNewSession(s, session) ==
    [NoResp EXCEPT !.from = "login.action", !.user = session.userId,
                   !.kind = "redirect", !.status = 302,
                   !.to = IF Is2FAEnabled(s, session.userId)
                          THEN "/verify" ELSE "/",
                   !.setCookie = session.id]

LoginRequest(username, password) ==
    [pc |-> "login", user |-> "none", username |-> username,
     password |-> password]

\* action, up to the awaited login(data): checkHoneypot throws when the
\* hidden field of the form is filled in; the transform that calls login
\* runs only on a form that passes the schema and has no validation intent
LoginAction(username, password, validateOnly, honeypot) ==
    /\ Ready
    /\ LET errors == LoginFormErrors(username, password)
           status == SubmissionStatus(errors, validateOnly)
       IN  IF honeypot
           THEN /\ resp' = ErrorResponse("login.action", "none", 400,
                                         "Form not submitted properly")
                /\ UNCHANGED inflight
           ELSE IF errors # {} \/ validateOnly
           THEN /\ resp' = LoginReply(IF status = "error" THEN 400 ELSE 200,
                                      errors, password)
                /\ UNCHANGED inflight
           ELSE /\ SlotFree
                /\ Cardinality(Created(sessions)) < MaxLogins
                /\ inflight' = Suspend(LoginRequest(username, password))
                /\ UNCHANGED resp
    /\ UNCHANGED <<store, nextSecret, now, latest, consumed, account, outbox>>

\* action: login(data) creates the session of a user whose password
\* matches, then handleNewSession; the reply with the issue otherwise
LoginCheck(r) ==
    /\ Ready
    /\ Awaiting(r)
    /\ r.pc = "login"
    /\ LET user == VerifyUserPassword(users, r.username, r.password)
           session == [id |-> NewSessionId(sessions), userId |-> user.id]
       IN  IF user = NoUser
           THEN /\ resp' = LoginReply(400, {"Invalid username or password"},
                                      r.password)
                /\ UNCHANGED sessions
           ELSE /\ sessions' = sessions \cup {session}
                /\ resp' = HandleNewSession(store, session)
    /\ inflight' = Resume(r)
    /\ UNCHANGED <<store, nextSecret, now, latest, consumed, users,
                   connections, notes, grants, outbox>>

\* what the login form can carry
LoginForms ==
    [username : {"kody", "hannah", NoUsername},
     password : {"kodylovesyou", "wrong-password", NoPassword},
     validateOnly : BOOLEAN, honeypot : {FALSE}]
    \cup [username : {"kody"}, password : {"kodylovesyou"},
          validateOnly : {FALSE}, honeypot : {TRUE}]

LoginNext ==
    \/ \E f \in LoginForms :
          LoginAction(f.username, f.password, f.validateOnly, f.honeypot)
    \/ \E r \in BagToSet(inflight) : LoginCheck(r)
    \/ Deliver

LoginSpec == Init /\ [][LoginNext]_vars

(* --------------- settings/profile/change-email: the page --------------- *)
\* requireRecentVerification: a user with 2FA enabled must have verified
\* recently, which the request's cookie records
RequireRecentVerification(s, u, recent) == ~ Is2FAEnabled(s, u) \/ recent

\* json({ user })
UserData(from, u, email) ==
    [NoResp EXCEPT !.from = from, !.user = u, !.kind = "json",
                   !.status = 200, !.email = email]

\* loader: requireRecentVerification, requireUserId, the user's address
ChangeEmailLoader(u, recent) ==
    /\ Ready
    /\ LET user == FindUser(users, u) IN
       resp' = IF ~ RequireRecentVerification(store, u, recent)
               THEN Redirect("change-email.loader", u, "/verify")
               ELSE IF user = NoUser
               THEN Redirect("change-email.loader", u, "/login")
               ELSE UserData("change-email.loader", u, user.email)
    /\ UNCHANGED <<store, nextSecret, now, inflight, latest, consumed,
                   account, outbox>>

\* action, for a submitted form: requireUserId alone, whatever the cookie
\* records about a recent verification
ChangeEmailPost(u, email, recent) == ChangeEmailAction(u, email, FALSE)

ChangeEmailPageNext ==
    \/ \E u \in EmailUsers : TwoFactorActionGenerate(u)
    \/ \E r \in BagToSet(inflight) : TwoFactorActionUpsert(r)
    \/ \E u \in EmailUsers, f \in VerifyPageForms :
          VerifyAction(u, f.intent, f.code, FALSE)
    \/ \E r \in BagToSet(inflight) : VerifyActionUpdate(r)
    \/ \E u \in EmailUsers, recent \in BOOLEAN : ChangeEmailLoader(u, recent)
    \/ \E u \in EmailUsers, email \in EmailInputs, recent \in BOOLEAN :
          ChangeEmailPost(u, email, recent)
    \/ \E r \in BagToSet(inflight) : ChangeEmailPrepare(r)
    \/ \E r \in BagToSet(inflight), status \in {"success", "error"} :
          ChangeEmailSend(r, status)
    \/ Deliver

ChangeEmailPageSpec == Init /\ [][ChangeEmailPageNext]_vars

(* ======================= properties of the flow ======================== *)
Pending(s, u) == { r \in s : Matches(r, twoFAVerifyVerificationType, u) }
Enabled(s, u) == { r \in s : Matches(r, twoFAVerificationType, u) }

\* every code an authenticator derives from a secret within the run
CodesOf(secret) ==
    { TOTPCode(secret, DefaultDigits, c) :
        c \in 0..TimeCounter(MaxNow, DefaultPeriod) }

\* the requests a step has suspended
Started ==
    { r \in BagToSet(inflight') : CopiesIn(r, inflight') > CopiesIn(r, inflight) }

\* the verify forms a step can have served: the one its reply echoes, or the
\* one of the request it has suspended at the update
VerifyForms ==
    IF resp'.from = "verify.action" /\ resp'.kind = "json"
    THEN IF resp'.payload.intent = "verify"
         THEN { [user |-> resp'.user, intent |-> "verify",
                 code |-> resp'.payload.code,
                 validateOnly |-> (resp'.status = 200)] }
         ELSE {}
    ELSE { [user |-> r.user, intent |-> "verify", code |-> r.code,
            validateOnly |-> FALSE] :
             r \in { q \in Started : q.pc = "update" } }
InvalidCode(r) == "Invalid code" \in r.errors
\* the failure of a database call that found no row
NotFound(r) == r.kind = "throw" /\ r.errors = {"P2025"}
UpsertSteps == { r \in BagToSet(inflight) : r.pc = "upsert" }
UpdateSteps == { r \in BagToSet(inflight) : r.pc = "update" }

\* C1: the store never holds two records with the same (type, target), and
\* an enable request stored for a user who has a pending "2fa-verify"
\* record rewrites that record and adds none.
C1_UniqueTypeTarget ==
    /\ [](\A r1, r2 \in store :
            (r1.type = r2.type /\ r1.target = r2.target) => r1 = r2)
    /\ [][\A r \in UpsertSteps :
            (TwoFactorActionUpsert(r) /\ Pending(store, r.user) # {})
            => /\ Cardinality(store') = Cardinality(store)
               /\ Cardinality(Pending(store', r.user)) = 1
               /\ \A q \in Pending(store', r.user) :
                    q.secret = r.config.secret]_vars

\* a pending record that a second enable request has rewritten
C1_Witness ==
    \E r \in store : r.type = twoFAVerifyVerificationType /\ r.id # r.secret

\* C2: once a later enable request of the user is stored, a verify form
\* carrying a code of an earlier secret is rejected with "Invalid code" and
\* changes nothing; a form is accepted only with a code of the secret stored
\* last, and whenever the records or the clock change, every code that
\* counts for a user is a code of the secret stored last for that user.
C2_SupersededCodeRejected ==
    /\ [][\A f \in VerifyForms :
            VerifyAction(f.user, f.intent, f.code, f.validateOnly)
            => /\ (\E s \in 1..MaxSecrets :
                      s # latest[f.user] /\ f.code \in CodesOf(s))
                  => (InvalidCode(resp') /\ store' = store
                      /\ inflight' = inflight)
               /\ (inflight' # inflight \/ (resp'.errors = {}))
                  => (latest[f.user] # 0
                      /\ f.code \in CodesOf(latest[f.user]))]_vars
    /\ [][(store' # store \/ now' # now)
          => \A u \in Users : \A s \in 1..MaxSecrets : \A c \in CodesOf(s) :
               IsCodeValid(store', c, twoFAVerifyVerificationType, u, now')
               => s = latest'[u]]_vars

\* the code of the first secret, in a window where it would still count,
\* refused after the second request rewrote the record
C2_Witness ==
    \E r \in store :
        /\ r.type = twoFAVerifyVerificationType
        /\ r.id # r.secret
        /\ resp.user = r.target
        /\ resp.from = "verify.action"
        /\ InvalidCode(resp)
        /\ resp.payload.code
             = TOTPCode(r.id, r.digits, TimeCounter(now, r.period))

C4_WrongCodeKeepsRecord ==
    [][\A f \in VerifyForms :
         (VerifyAction(f.user, f.intent, f.code, f.validateOnly)
          /\ ~ IsCodeValid(store, f.code, twoFAVerifyVerificationType,
                           f.user, now))
         => /\ store' = store
            /\ inflight' = inflight
            /\ resp'.kind = "json"
            /\ resp'.status = IF f.validateOnly THEN 200 ELSE 400
            /\ IF f.code = NoCode THEN resp'.errors = {"Required"}
               ELSE InvalidCode(resp')
            /\ \A q \in Pending(store, f.user) : \A c \in CodesOf(q.secret) :
                 IsCodeValid(store', c, twoFAVerifyVerificationType, f.user,
                             now')
                 = IsCodeValid(store, c, twoFAVerifyVerificationType, f.user,
                               now)]_vars

\* C4 as claimed: every such form is answered "Invalid code".
C4_WrongCodeInvalidCode ==
    [][\A f \in VerifyForms :
         (VerifyAction(f.user, f.intent, f.code, f.validateOnly)
          /\ ~ IsCodeValid(store, f.code, twoFAVerifyVerificationType,
                           f.user, now))
         => (store' = store /\ resp'.kind = "json" /\ InvalidCode(resp'))]_vars

\* a code of the wrong length refused while the record stays and its
\* current code still counts
C4_Witness ==
    \E r \in store :
        /\ r.type = twoFAVerifyVerificationType
        /\ resp.user = r.target
        /\ resp.status = 400
        /\ resp.errors = {"too_small", "Invalid code"}
        /\ IsCodeValid(store,
                       TOTPCode(r.secret, r.digits,
                                TimeCounter(now, r.period)),
                       twoFAVerifyVerificationType, r.target, now)

\* C5: of the verify requests of a user that passed validation together,
\* the update of one consumes the record (none was enabled before, one is
\* after, none is pending); an update that finds the pending record gone
\* throws the not-found error and changes nothing.
C5_ConcurrentVerifyOneWins ==
    [][\A r \in UpdateSteps :
         VerifyActionUpdate(r)
         => IF Pending(store, r.user) = {}
            THEN NotFound(resp') /\ store' = store
            ELSE IF resp'.kind = "redirect"
            THEN /\ Enabled(store, r.user) = {}
                 /\ Cardinality(Enabled(store', r.user)) = 1
                 /\ Pending(store', r.user) = {}
            ELSE store' = store]_vars

\* the loser: its update threw not-found after the winner's update, with
\* no enable request stored in between
C5_Witness ==
    \E u \in Users :
        /\ consumed[u]
        /\ resp.user = u
        /\ NotFound(resp)
        /\ Pending(store, u) = {}
        /\ Enabled(store, u) # {}

\* C6: whatever the order in which the enable requests of a user reach the
\* database, each upsert leaves exactly one "2fa-verify" record for the user,
\* holding the secret, algorithm, digits, period and charSet of the request
\* written last and nothing of the record it found; the records of other
\* keys are untouched.
C6_LastWriterWins ==
    [][\A r \in UpsertSteps :
         TwoFactorActionUpsert(r)
         => /\ Cardinality(Pending(store', r.user)) = 1
            /\ \A q \in Pending(store', r.user) :
                 /\ q.secret = r.config.secret
                 /\ q.algorithm = r.config.algorithm
                 /\ q.digits = r.config.digits
                 /\ q.period = r.config.period
                 /\ q.charSet = r.config.charSet
            /\ store' \ Pending(store', r.user)
                 = store \ Pending(store, r.user)]_vars

\* two requests were in flight together and the one generated first wrote
\* last: the row the second created holds the first secret
C6_Witness ==
    \E r \in store :
        /\ r.type = twoFAVerifyVerificationType
        /\ r.id = 2
        /\ r.secret = 1

\* C7: a cancel submission is answered by the redirect to the two-factor
\* page whether or not the user has a pending record; it removes the user's
\* pending record and nothing else, so with no pending record the store is
\* unchanged, and a second cancel would change nothing.
C7_CancelIdempotent ==
    [][\A u \in Users :
         VerifyAction(u, "cancel", NoCode, FALSE)
         => /\ resp' = Redirect("verify.action", u,
                                "/settings/profile/two-factor")
            /\ store' = store \ Pending(store, u)
            /\ Pending(store', u) = {}
            /\ (Pending(store, u) = {} => store' = store)
            /\ DeleteMany(store', twoFAVerifyVerificationType, u) = store'
            /\ inflight' = inflight]_vars

\* a cancel answered with the redirect for a user no enable request was ever
\* stored for, the records of the other user still in the store
C7_Witness ==
    /\ resp.user \in Users
    /\ resp = Redirect("verify.action", resp.user,
                       "/settings/profile/two-factor")
    /\ latest[resp.user] = 0
    /\ store # {}

\* C8: a verify request that ends in the "Enabled" redirect has changed the
\* type of the user's pending record and nothing else: no "2fa-verify"
\* record is left, and the only "2fa" record of the user is the pending
\* record with its id, secret, algorithm, period, digits under the new type.
C8_VerifyRetypesInPlace ==
    [][\A r \in UpdateSteps :
         (VerifyActionUpdate(r) /\ resp'.toast = "Enabled")
         => \E old \in Pending(store, r.user) :
              LET new == [old EXCEPT !.type = twoFAVerificationType] IN
              /\ store' = (store \ {old}) \cup {new}
              /\ Pending(store', r.user) = {}
              /\ Enabled(store', r.user) = {new}
              /\ Cardinality(store') = Cardinality(store)]_vars

\* the enabled record still carries the id of the request that created the
\* row and the secret of the request that rewrote it
C8_Witness ==
    /\ resp.toast = "Enabled"
    /\ \E r \in Enabled(store, resp.user) : r.id # r.secret

\* C9: a user's pending record appears or is rewritten only by the upsert
\* of an enable request of that user, and disappears only by a verify that
\* ends in the type change, by a cancel of that user, or once its expiry
\* has passed.
C9_FlowTransitions ==
    [][\A u \in Users :
         /\ (Pending(store', u) # {} /\ Pending(store', u) # Pending(store, u))
            => \E r \in UpsertSteps :
                 r.user = u /\ TwoFactorActionUpsert(r)
         /\ (Pending(store, u) # {} /\ Pending(store', u) = {})
            => \/ VerifyAction(u, "cancel", NoCode, FALSE)
               \/ \E r \in UpdateSteps :
                    /\ r.user = u
                    /\ VerifyActionUpdate(r)
                    /\ resp'.toast = "Enabled"
                    /\ Enabled(store', u) # {}
               \/ \E q \in Pending(store, u) :
                    q.expiresAt # NoExpiry /\ q.expiresAt <= now']_vars

\* back to pending from a terminal state: the second enable request created
\* a new row after the first one's record was cancelled
C9_Witness ==
    \E u \in Users :
        /\ \E r \in Pending(store, u) : r.id = 2 /\ r.secret = 2
        /\ Enabled(store, u) = {}
        /\ \A v \in Users \ {u} : latest[v] = 0
        /\ inflight = EmptyBag

\* C10: a "2fa" record of a user appears only by the update of a verify
\* request of that user, against that user's pending record; a verify
\* request gets to the update only with a code that was valid for the
\* pending record when the form was parsed; and both loaders report 2FA as
\* enabled exactly when the user has a "2fa" record.
C10_EnabledOnlyByVerify ==
    /\ [][\A u \in Users :
            (Enabled(store', u) # Enabled(store, u))
            => \E r \in UpdateSteps :
                 /\ r.user = u
                 /\ VerifyActionUpdate(r)
                 /\ Pending(store, u) # {}
                 /\ Enabled(store, u) = {}
                 /\ resp'.toast = "Enabled"]_vars
    /\ [][\A r \in Started :
            r.pc = "update"
            => IsCodeValid(store, r.code, twoFAVerifyVerificationType,
                           r.user, now)]_vars
    /\ [](resp.from \in {"two-factor.loader", "profile.loader"}
          => resp.is2FAEnabled = (Enabled(store, resp.user) # {}))

\* a loader reporting "not enabled" for a user who has only a pending
\* record, while the other user's verify has enabled 2FA
C10_Witness ==
    /\ resp.from \in {"two-factor.loader", "profile.loader"}
    /\ ~ resp.is2FAEnabled
    /\ Pending(store, resp.user) # {}
    /\ \E v \in Users : Enabled(store, v) # {}

\* C11: a cancel submission carries no code and passes the parse; it takes
\* nothing out of the store but "2fa-verify" records of the requesting user:
\* the user's "2fa" record, every record of every other user and what the
\* loaders report as enabled, for every user, stay as they were.
C11_CancelFrame ==
    [][\A u \in Users :
         VerifyAction(u, "cancel", NoCode, FALSE)
         => /\ SubmissionErrors(store, u, "cancel", NoCode, now) = {}
            /\ resp'.kind = "redirect"
            /\ store' \subseteq store
            /\ \A r \in store \ store' :
                 r.type = twoFAVerifyVerificationType /\ r.target = u
            /\ Enabled(store', u) = Enabled(store, u)
            /\ \A v \in Users \ {u} :
                 { r \in store' : r.target = v } = { r \in store : r.target = v }
            /\ \A v \in Users :
                 /\ Is2FAEnabled(store', v) = Is2FAEnabled(store, v)
                 /\ IsTwoFactorEnabled(store', v)
                      = IsTwoFactorEnabled(store, v)]_vars

\* a cancel that removed the pending record of a user whose first secret is
\* enabled: the "2fa" record is still there
C11_Witness ==
    /\ resp.user \in Users
    /\ resp = Redirect("verify.action", resp.user,
                       "/settings/profile/two-factor")
    /\ \E r \in Enabled(store, resp.user) : r.secret # latest[resp.user]
    /\ Pending(store, resp.user) = {}

C15_FailuresRecovered == resp.kind # "throw"

\* C17: whenever a user has a pending record, a verify form carrying the
\* code derived from that record's secret, digits and period for the time
\* of the submission passes the parse without an issue: a validation-only
\* form is answered 200 with no error, any other goes on to the update.
C17_RoundTrip ==
    [][\A f \in VerifyForms :
         (VerifyAction(f.user, f.intent, f.code, f.validateOnly)
          /\ \E q \in Pending(store, f.user) :
               f.code = TOTPCode(q.secret, q.digits,
                                 TimeCounter(now, q.period)))
         => /\ resp'.errors = {}
            /\ store' = store
            /\ IF f.validateOnly
               THEN resp'.status = 200 /\ inflight' = inflight
               ELSE /\ resp' = resp
                    /\ inflight' = Suspend(VerifyRequest(f.user, f.code))]_vars

\* a verify request at its update with the code derived from the record
\* the enable request has just stored, before the clock moved
C17_Witness ==
    \E r \in UpdateSteps : \E q \in Pending(store, r.user) :
        /\ now = 0
        /\ q.id = q.secret
        /\ r.code = TOTPCode(q.secret, q.digits, TimeCounter(now, q.period))

\* the time windows a run covers
Windows == 0..TimeCounter(MaxNow, DefaultPeriod)

\* C18: a verify form carrying the code of the user's pending record for
\* window c is accepted when c is the current window, rejected with "Invalid
\* code" and without any change when c is two or more windows away, and
\* accepted for an adjacent window exactly when the tolerance covers it.
C18_WindowTolerance ==
    [][\A f \in VerifyForms :
         VerifyAction(f.user, f.intent, f.code, f.validateOnly)
         => \A q \in Pending(store, f.user) : \A c \in Windows :
              (f.code = TOTPCode(q.secret, q.digits, c))
              => LET cur == TimeCounter(now, q.period)
                     away == IF c >= cur THEN c - cur ELSE cur - c
                 IN  /\ (away = 0) => (resp'.errors = {})
                     /\ (away = 1) => ((resp'.errors = {}) <=> SkewWindows >= 1)
                     /\ (away >= 2)
                        => /\ InvalidCode(resp')
                           /\ store' = store
                           /\ inflight' = inflight]_vars

\* the code of the pending record for window 0 refused in window 2
C18_Witness ==
    \E q \in Pending(store, resp.user) :
        /\ TimeCounter(now, q.period) = 2
        /\ resp.from = "verify.action"
        /\ InvalidCode(resp)
        /\ resp.payload.code = TOTPCode(q.secret, q.digits, 0)

\* C20: the verify page's loader answers with the otpauth URI of the
\* secret, algorithm, period and digits of the requesting user's
\* "2fa-verify" record exactly when the user has one, and otherwise with the
\* redirect to the two-factor settings page, which carries no URI; after an
\* enable request is stored the user has such a record.
C20_LoaderUri ==
    /\ [][\A u \in Users :
            VerifyLoader(u)
            => IF Pending(store, u) = {}
               THEN resp' = Redirect("verify.loader", u,
                                     "/settings/profile/two-factor")
               ELSE /\ resp'.kind = "json"
                    /\ resp'.to = "none"
                    /\ \E q \in Pending(store, u) :
                         /\ resp'.otpUri.secret = q.secret
                         /\ resp'.otpUri.algorithm = q.algorithm
                         /\ resp'.otpUri.period = q.period
                         /\ resp'.otpUri.digits = q.digits]_vars
    /\ [][\A r \in UpsertSteps :
            TwoFactorActionUpsert(r) => Pending(store', r.user) # {}]_vars
    /\ [](resp.otpUri # NoUri
          => \E q \in Pending(store, resp.user) :
               q.secret = resp.otpUri.secret)

\* the loader redirecting a user whose flow was consumed, with the enabled
\* secret not in the response, while the other user is shown a URI later
C20_Witness ==
    /\ resp.from = "verify.loader"
    /\ resp.kind = "redirect"
    /\ resp.otpUri = NoUri
    /\ Enabled(store, resp.user) # {}
    /\ \E v \in Users : Pending(store, v) # {}

(* ==================== properties of change-email ======================= *)
ChangeEmailRecords(s, u) ==
    { r \in s : Matches(r, changeEmailVerificationType, u) }
PrepareSteps == { r \in BagToSet(inflight) : r.pc = "prepare" }
SendSteps == { r \in BagToSet(inflight) : r.pc = "send" }

\* C13: when sendEmail reports an error, the action answers with the 500
\* reply that carries the error's message, sets no verify session and
\* redirects nowhere; the request is over, having called sendEmail once: no
\* request sends twice.
C13_DeliveryFailureSurfaced ==
    /\ [][\A r \in SendSteps :
            ChangeEmailSend(r, "error")
            => /\ resp'.kind = "json"
               /\ resp'.status = 500
               /\ resp'.errors = {SendErrorMessage}
               /\ resp'.setCookie = "none"
               /\ resp'.to = "none"
               /\ Len(outbox') = Len(outbox) + 1
               /\ outbox'[Len(outbox')].to = r.email
               /\ outbox'[Len(outbox')].status = "error"
               /\ \A q \in BagToSet(inflight') :
                    q.verification.config.secret
                      # r.verification.config.secret]_vars
    /\ [](\A i, j \in 1..Len(outbox) :
            outbox[i].secret = outbox[j].secret => i = j)

\* the 500 reply after the only send failed
C13_Witness ==
    /\ resp.from = "change-email.action"
    /\ resp.status = 500
    /\ Len(outbox) = 1
    /\ outbox[1].status = "error"
    /\ inflight = EmptyBag

\* C14 as claimed: a step that ends in an error response leaves the store
\* as it was, and the request whose delivery failed has left no record of
\* its own in the store.
C14_ErrorLeavesStore ==
    [][/\ (resp' # resp /\ resp'.status >= 400) => store' = store
       /\ \A r \in SendSteps :
            ChangeEmailSend(r, "error")
            => \A q \in store' : q.secret # r.verification.config.secret]_vars

\* C16: the record of a change-email request expires ten minutes after the
\* request; the code that was emailed is accepted five minutes after the
\* request, and the record is deleted; eleven minutes or more after the
\* request it is answered "Invalid code" and the record stays.
C16_TenMinuteValidity ==
    /\ [][\A u \in EmailUsers : \A email \in EmailInputs :
            ChangeEmailAction(u, email, FALSE)
            => \A r \in Started :
                 /\ r.verification.expiresAt = now + 10 * 60
                 /\ r.verification.config.period = 10 * 60]_vars
    /\ [][\A r \in PrepareSteps :
            ChangeEmailPrepare(r)
            => \A q \in ChangeEmailRecords(store', r.user) :
                 /\ q.expiresAt = r.verification.expiresAt
                 /\ q.secret = r.verification.config.secret]_vars
    /\ [][\A u \in EmailUsers : \A code \in EmailCodeInputs :
            VerifyChangeEmail(u, code)
            => \A q \in ChangeEmailRecords(store, u) :
                 LET issued == q.expiresAt - 10 * 60
                     emailed == TOTPCode(q.secret, q.digits,
                                         TimeCounter(issued, q.period))
                 IN  (code = emailed)
                     => /\ (now - issued = 5 * 60)
                           => /\ resp'.toast = "Email Changed"
                              /\ ChangeEmailRecords(store', u) = {}
                        /\ (now - issued >= 11 * 60)
                           => /\ InvalidCode(resp')
                              /\ store' = store]_vars

\* the emailed code refused eleven minutes after the request
C16_Witness ==
    \E q \in ChangeEmailRecords(store, resp.user) :
        /\ resp.from = "verify.change-email"
        /\ InvalidCode(resp)
        /\ resp.payload.code
             = TOTPCode(q.secret, q.digits,
                        TimeCounter(q.expiresAt - 10 * 60, q.period))
        /\ now - (q.expiresAt - 10 * 60) = 11 * 60

(* ===================== properties of the dispatch ====================== *)
ProfileIntents ==
    {profileUpdateActionIntent, signOutOfSessionsActionIntent,
     deleteDataActionIntent}

\* the step has returned a response
Answered == resp' # resp
\* one handler has acted: it has answered as `from`, or it waits at `pc`
HandledOnceBy(from, pc) ==
    \/ Answered /\ resp'.from = from /\ Started = {}
    \/ ~ Answered /\ \E r \in Started : Started = {r} /\ r.pc = pc
                                        /\ CopiesIn(r, inflight')
                                             = CopiesIn(r, inflight) + 1
\* nothing the server keeps has changed
NothingChanged ==
    UNCHANGED <<store, nextSecret, now, inflight, latest, consumed, account,
                outbox>>

\* C19: each of the three actions is a closed dispatch on the intent.  On
\* settings/profile a form with intent update-profile is served by
\* profileUpdateAction alone, one with sign-out-of-sessions by
\* signOutOfSessionsAction alone, one with delete-data by deleteDataAction
\* alone; on the verify page cancel deletes the pending record and verify
\* goes to the type update (or is answered by the validation reply); on
\* settings/profile/connections delete-connection goes to the delete of a
\* connection.  A form whose intent is missing or belongs to another route
\* is answered with an error (a 400 Response "Invalid intent", or the reply
\* carrying "Invalid discriminator value", status 400, 200 for a form that
\* only validates) and nothing the server keeps changes; a handler resumed
\* at its write serves the intent it was started for and writes only its
\* own table.
C19_IntentDispatch ==
    /\ [][\A u \in DispatchUsers, sid \in SessionIds, f \in ProfileForms :
            ProfileAction(u, sid, f.intent, f.name, f.username,
                          f.validateOnly)
            => /\ (f.intent = profileUpdateActionIntent)
                  => /\ HandledOnceBy("profileUpdateAction", "user.update")
                     /\ UNCHANGED <<store, account>>
               /\ (f.intent = signOutOfSessionsActionIntent)
                  => /\ HandledOnceBy("signOutOfSessionsAction", "none")
                     /\ Answered
                     /\ sessions' = { s \in sessions :
                                        s.userId # u \/ s.id = sid }
                     /\ UNCHANGED <<store, users, connections>>
               /\ (f.intent = deleteDataActionIntent)
                  => /\ HandledOnceBy("deleteDataAction", "none")
                     /\ Answered
                     /\ FindUser(users', u) = NoUser
                     /\ UNCHANGED store
               /\ (f.intent \notin ProfileIntents)
                  => /\ resp'.from = "profile.action"
                     /\ resp'.kind = "response"
                     /\ resp'.status = 400
                     /\ resp'.errors = {"Invalid intent"}
                     /\ NothingChanged]_vars
    /\ [][\A u \in DispatchUsers, sid \in SessionIds,
            f \in ConnectionsForms :
            ConnectionsAction(u, sid, f.intent, f.connectionId)
            => /\ (f.intent = deleteConnectionIntent)
                  => /\ HandledOnceBy("connections.action",
                                      "connection.delete")
                     /\ Answered => "Invalid intent" \notin resp'.errors
                     /\ UNCHANGED <<store, account>>
               /\ (f.intent # deleteConnectionIntent)
                  => /\ resp'.from = "connections.action"
                     /\ resp'.kind = "response"
                     /\ resp'.status = 400
                     /\ resp'.errors = {"Invalid intent"}
                     /\ NothingChanged]_vars
    /\ [][\A u \in DispatchUsers, f \in DispatchVerifyForms :
            VerifyAction(u, f.intent, f.code, f.validateOnly)
            => /\ (f.intent = "cancel" /\ ~ f.validateOnly)
                  => /\ HandledOnceBy("verify.action", "none")
                     /\ Answered
                     /\ resp'.kind = "redirect"
                     /\ Pending(store', u) = {}
                     /\ Enabled(store', u) = Enabled(store, u)
                     /\ UNCHANGED account
               /\ (f.intent = "verify")
                  => /\ HandledOnceBy("verify.action", "update")
                     /\ Answered => resp'.kind = "json"
                     /\ UNCHANGED <<store, account>>
               /\ (f.intent \notin Intents)
                  => /\ resp'.from = "verify.action"
                     /\ resp'.kind = "json"
                     /\ resp'.status = IF f.validateOnly THEN 200 ELSE 400
                     /\ resp'.errors = {"Invalid discriminator value"}
                     /\ NothingChanged]_vars
    /\ [][\A r \in BagToSet(inflight) :
            /\ ProfileUpdateWrite(r)
               => /\ r.intent = profileUpdateActionIntent
                  /\ resp'.from = "profileUpdateAction"
                  /\ UNCHANGED <<store, sessions, connections>>
            /\ ConnectionsActionDelete(r)
               => /\ r.intent = deleteConnectionIntent
                  /\ resp'.from = "connections.action"
                  /\ UNCHANGED <<store, users, sessions>>
            /\ VerifyActionUpdate(r)
               => /\ resp'.from = "verify.action"
                  /\ UNCHANGED account]_vars

\* a form without a known intent refused on settings/profile while a
\* verification is pending and another handler waits at its write
C19_Witness ==
    /\ resp.from = "profile.action"
    /\ resp.kind = "response"
    /\ resp.status = 400
    /\ store # {}
    /\ inflight # EmptyBag
    /\ users = SeedUsers
    /\ sessions = SeedSessions
    /\ connections = SeedConnections

(* =================== properties of the connections ===================== *)
ConnectionsOf(cs, u) == { c \in cs : c.userId = u }
\* the requests resumed at the delete of a connection
DeleteSteps == { r \in BagToSet(inflight) : r.pc = "connection.delete" }

\* C21: a user without a password keeps at least one connection, whatever
\* delete-connection requests are served and however they interleave; a
\* connection is removed only while the user has a password or more than
\* one connection, and the request is refused with the last-connection
\* message otherwise.
C21_LastConnectionKept ==
    \A user \in users :
        ~ user.password => ConnectionsOf(connections, user.id) # {}

\* C25: the delete of a connection removes at most the one row that has the
\* submitted id and belongs to the requester; a submitted id of another
\* user's connection removes nothing, and the connections of all other
\* users are as before.  The checks before the delete write nothing.
C25_OwnConnectionOnly ==
    /\ [][\A r \in DeleteSteps :
            ConnectionsActionDelete(r)
            => /\ \A c \in connections \ connections' :
                    c.userId = r.user /\ c.id = r.connectionId
               /\ connections' \subseteq connections
               /\ \A u \in Users \ {r.user} :
                    ConnectionsOf(connections', u)
                      = ConnectionsOf(connections, u)
               /\ (\E c \in connections :
                     c.id = r.connectionId /\ c.userId # r.user)
                  => /\ connections' = connections
                     /\ resp'.kind = "throw"]_vars
    /\ [][\A u \in Users, sid \in SessionIds, f \in ConnectionsPageForms :
            ConnectionsAction(u, sid, f.intent, f.connectionId)
            => connections' = connections]_vars

\* the delete of another user's connection has failed and every connection
\* is still there
C25_Witness ==
    /\ resp.from = "connections.action"
    /\ resp.kind = "throw"
    /\ resp.errors = {"P2025"}
    /\ connections = SeedConnections

(* ================ properties of the enrolment records ================== *)
\* C22: no user has a record of type "2fa" and a record of type
\* "2fa-verify" at once, so the type update of the verify action never
\* meets an existing ("2fa", user) record.
C22_NeverBothRecords ==
    \A u \in Users : Pending(store, u) = {} \/ Enabled(store, u) = {}

(* ====================== properties of the notes ======================== *)
\* the requests resumed at the delete of a note
NoteDeleteSteps == { r \in BagToSet(inflight) : r.pc = "note.delete" }

\* C23: a note is removed only by the delete step of a request of a
\* signed-in user whose roles carry "delete:note:own" when the note is
\* theirs and "delete:note:any" when it is not; a request is taken to the
\* delete step only with that permission.  A form naming a note that does
\* not exist is answered 404, a submitted form that fails DeleteFormSchema
\* 400, and every answer that is not the redirect after the delete leaves
\* the notes as they were.
C23_NoteDeletePermission ==
    /\ [][\A u \in Users, sid \in SessionIds, f \in NoteForms :
            NoteAction(u, sid, f.intent, f.noteId, f.validateOnly)
            => /\ notes' = notes
               /\ \A r \in Started :
                    \E n \in notes :
                      /\ n.id = r.noteId /\ r.noteId = f.noteId
                      /\ r.user = u
                      /\ Authenticated(sessions, u, sid)
                      /\ f.intent = deleteNoteIntent /\ ~ f.validateOnly
                      /\ (n.ownerId = u) => "delete:note:own" \in grants[u]
                      /\ (n.ownerId # u) => "delete:note:any" \in grants[u]
               /\ (~ f.validateOnly
                   /\ (f.intent # deleteNoteIntent \/ f.noteId = NoNoteId))
                  => resp'.status = 400 /\ resp'.errors # {}
               /\ (~ f.validateOnly /\ f.intent = deleteNoteIntent
                   /\ f.noteId # NoNoteId
                   /\ ~ \E n \in notes : n.id = f.noteId)
                  => resp'.status = 404
               /\ (\E n \in notes :
                     /\ n.id = f.noteId
                     /\ (IF n.ownerId = u THEN "delete:note:own"
                         ELSE "delete:note:any") \notin grants[u])
                  => Started = {}]_vars
    /\ [][\A r \in NoteDeleteSteps :
            NoteActionDelete(r)
            => /\ notes \ notes' \subseteq { n \in notes : n.id = r.noteId }
               /\ notes' \subseteq notes
               /\ (resp'.kind # "redirect") => notes' = notes]_vars
    /\ [][notes' # notes
            => \E r \in NoteDeleteSteps : NoteActionDelete(r)]_vars

\* a user with the permission on their own notes only has been refused the
\* delete of another user's note, which is still there
C23_Witness ==
    /\ resp.from = "note.action"
    /\ resp.status = 403
    /\ resp.toast = "delete:note:any"
    /\ "delete:note:own" \in grants[resp.user]
    /\ notes = SeedNotes

(* ===================== properties of the profile ======================= *)
SessionsOf(ss, u) == { s \in ss : s.userId = u }
\* the requests resumed at the update of the user row
UserUpdateSteps == { r \in BagToSet(inflight) : r.pc = "user.update" }

\* C24: sign-out-of-sessions leaves the requester exactly the session the
\* request came with and leaves every other user's sessions as they were;
\* called for a request without a session id it answers 400 and deletes
\* nothing.
C24_SignOutFrame ==
    /\ [][\A u \in Users, sid \in SessionIds :
            ProfileAction(u, sid, signOutOfSessionsActionIntent, "none",
                          NoUsername, FALSE)
            => /\ SessionsOf(sessions', u)
                    = { s \in SessionsOf(sessions, u) : s.id = sid }
               /\ \E s \in sessions' : s.id = sid /\ s.userId = u
               /\ \A v \in Users \ {u} :
                    SessionsOf(sessions', v) = SessionsOf(sessions, v)
               /\ resp'.status = 200]_vars
    /\ [][\A u \in Users :
            SignOutOfSessionsUnauthenticated(u)
            => /\ sessions' = sessions
               /\ resp'.kind = "response"
               /\ resp'.status = 400]_vars

\* the second user is still signed in after the first has signed out of
\* their other session
C24_Witness ==
    /\ resp.from = "signOutOfSessionsAction"
    /\ resp.status = 200
    /\ Cardinality(SessionsOf(sessions, resp.user)) = 1
    /\ Cardinality(SessionsOf(SeedSessions, resp.user)) = 2
    /\ \A v \in Users \ {resp.user} :
         SessionsOf(sessions, v) = SessionsOf(SeedSessions, v)

LoginSteps == { r \in BagToSet(inflight) : r.pc = "login" }

\* C27: the login action hands a session to handleNewSession only for a
\* real submit whose credential check returned a session, and no other
\* step creates a session.  A form that only validates never reaches the
\* credential check; it, a form that fails the schema and a submit whose
\* credentials are refused are answered with the form result, which does
\* not carry the password, and leave the sessions as they were.
C27_LoginSession ==
    /\ [][\A f \in LoginForms :
            LoginAction(f.username, f.password, f.validateOnly, f.honeypot)
            => /\ sessions' = sessions
               /\ resp'.setCookie = "none"
               /\ (Started # {})
                  => /\ ~ f.validateOnly /\ ~ f.honeypot
                     /\ f.username # NoUsername /\ f.password # NoPassword
               /\ (f.validateOnly /\ ~ f.honeypot)
                  => /\ Started = {}
                     /\ resp'.kind = "json" /\ resp'.status = 200
                     /\ resp'.password = "none"
               /\ (~ f.validateOnly /\ ~ f.honeypot
                   /\ (f.username = NoUsername \/ f.password = NoPassword))
                  => /\ resp'.kind = "json" /\ resp'.status = 400
                     /\ resp'.password = "none"]_vars
    /\ [][\A r \in LoginSteps :
            LoginCheck(r)
            => LET user == VerifyUserPassword(users, r.username, r.password)
               IN  /\ (user = NoUser)
                      => /\ sessions' = sessions
                         /\ resp'.kind = "json" /\ resp'.status = 400
                         /\ resp'.errors = {"Invalid username or password"}
                         /\ resp'.password = "none"
                         /\ resp'.setCookie = "none"
                   /\ (user # NoUser)
                      => /\ resp'.kind = "redirect"
                         /\ \E s \in sessions' \ sessions :
                              /\ sessions' = sessions \cup {s}
                              /\ s.userId = user.id
                              /\ resp'.setCookie = s.id]_vars
    /\ [][sessions' # sessions
            => \E r \in LoginSteps :
                 /\ LoginCheck(r)
                 /\ resp'.kind = "redirect"]_vars

\* a submit with a wrong password has been refused after another one has
\* logged in
C27_Witness ==
    /\ resp.from = "login.action"
    /\ resp.kind = "json"
    /\ resp.errors = {"Invalid username or password"}
    /\ Created(sessions) # {}

(* ================ properties of the change-email form ================== *)
InUse(us, email) == \E r \in us : r.email = email

\* C29: the change-email action goes on to prepareVerification and to
\* sendEmail only for a submitted address that is well formed and is the
\* address of no user; nothing else writes a change-email record or sends
\* an email.  A form with an address in use is answered with "This email
\* is already in use." (status 400; 200 for a form that only validates),
\* without a verify-session cookie, and leaves the verification store as
\* it was.
C29_OnlyUnusedAddress ==
    /\ [][\A u \in EmailUsers, email \in EmailInputs, v \in BOOLEAN :
            ChangeEmailAction(u, email, v)
            => /\ store' = store
               /\ outbox' = outbox
               /\ resp'.setCookie = "none"
               /\ (Started # {})
                  => /\ ~ v
                     /\ WellFormed(email)
                     /\ ~ InUse(users, email)
                     /\ \A r \in Started : r.email = email /\ r.user = u
               /\ InUse(users, email)
                  => /\ resp'.errors = {"This email is already in use."}
                     /\ resp'.status = IF v THEN 200 ELSE 400
                     /\ Started = {}]_vars
    /\ [][\A r \in PrepareSteps :
            ChangeEmailPrepare(r)
            => /\ WellFormed(r.email) /\ ~ InUse(users, r.email)
               /\ outbox' = outbox]_vars
    /\ [][\A r \in SendSteps :
            (\E status \in {"success", "error"} : ChangeEmailSend(r, status))
            => /\ WellFormed(r.email) /\ ~ InUse(users, r.email)
               /\ outbox' = Append(outbox, outbox'[Len(outbox')])
               /\ outbox'[Len(outbox')].to = r.email
               /\ store' = store]_vars
    /\ [][\A u \in Users :
            (/\ ChangeEmailRecords(store', u) # ChangeEmailRecords(store, u)
             /\ ChangeEmailRecords(store', u) # {})
            => \E r \in PrepareSteps : ChangeEmailPrepare(r)]_vars
    /\ [][outbox' # outbox
            => \E r \in SendSteps, status \in {"success", "error"} :
                 ChangeEmailSend(r, status)]_vars

\* an address in use has been refused while the record of an earlier
\* request is in the store
C29_Witness ==
    /\ resp.from = "change-email.action"
    /\ resp.status = 400
    /\ resp.errors = {"This email is already in use."}
    /\ ChangeEmailRecords(store, resp.user) # {}

(* ================ properties of the change-email page ================== *)
\* C28: a request that the change-email action takes on to
\* prepareVerification and sendEmail has passed the recent-verification
\* check of the page: its user has no 2FA enabled, or its cookie records a
\* recent verification.
C28_RecentVerificationFirst ==
    [][\A u \in EmailUsers, email \in EmailInputs, recent \in BOOLEAN :
         (ChangeEmailPost(u, email, recent) /\ Started # {})
         => RequireRecentVerification(store, u, recent)]_vars

====
